---- MODULE Spec2Model ----
(***************************************************************************)
(* A model of the websocket subscription client of rpc/ws.go: the          *)
(* WSClient registry (subscriptionByRequestID, subscriptionByWSSubID,      *)
(* lock), the Subscription objects (req.ID, subID, stream, err), the       *)
(* reader goroutine started by Dial (receiveMessages) and the caller       *)
(* goroutines that run subscribe, Recv and Unsubscribe.                    *)
(*                                                                         *)
(* Process 0 is the reader goroutine.  Caller goroutine t (t >= 1) calls   *)
(* subscribe once and then Recv and Unsubscribe, any number of times, on   *)
(* the handle it got; the Subscription object it allocates is object t.    *)
(*                                                                         *)
(* Steps are cut at the accesses of shared state: the lock, the two maps,  *)
(* the two channels of a Subscription and the connection.  Purely local    *)
(* computation (gjson parsing, json decoding, building a request) is       *)
(* folded into the step that follows or precedes it.  A dereference of a   *)
(* nil *Subscription panics, which ends the whole process.                 *)
(*                                                                         *)
(* The connection is up until it is lost (ConnectionLost); while it is up  *)
(* ReadMessage and WriteMessage succeed, afterwards they fail.             *)
(*                                                                         *)
(* The peer follows the JSON-RPC pubsub protocol: it answers a request it  *)
(* has received at most once (a subscribe request with an                  *)
(* acknowledgement carrying a subscription id it has not handed out        *)
(* before, or with an error; an unsubscribe request with its response),    *)
(* it may send a notification for any subscription id at any time, with a  *)
(* payload that decodes or one that does not, and it may send an error     *)
(* frame whose id is null.                                                 *)
(*                                                                         *)
(* Request ids: newClientRequest draws rand.Int63(); the code uses an id   *)
(* only as a map key, so each request gets a value of its own that is      *)
(* distinct from every other request's (SubscribeID, UnsubscribeID).       *)
(* Payloads: the code never looks into a decoded result, so the k-th       *)
(* result delivered to a Subscription is the number k.                     *)
(***************************************************************************)
EXTENDS Integers, Sequences, FiniteSets, TLC

\* ------------------------------------------------------------------ bounds

\* Caller goroutines, each subscribing once (so also the Subscription objects).
MaxSubs == 2
\* cap(sub.stream): make(chan result, 200) in newSubscription, scaled down.
StreamCap == 2
\* Results the server has the reader deliver to one Subscription; the answers
\* to requests are bounded by the requests, and a notification that is
\* dropped changes nothing.
MaxPushed == 3

\* cap(sub.err): make(chan error, 1)
ErrCap == 1

Reader == 0
Tasks == 1..MaxSubs
Procs == {Reader} \cup Tasks
Subs == 1..MaxSubs
\* Subscription ids the server hands out (Solana's pubsub counts from 0).
SubIDs == 0..(MaxSubs - 1)
\* A field that is absent from a frame; no lock holder; no Subscription.
None == -1
\* The JSON value null.
Null == -2
NoSub == 0

EmptyMap == [x \in {} |-> NoSub]

VARIABLES
    subscriptionByRequestID,  \* c.subscriptionByRequestID: req id -> Subscription
    subscriptionByWSSubID,    \* c.subscriptionByWSSubID: sub id -> Subscription
    lock,                     \* c.lock: the process holding it for writing, or None
    subReq,                   \* sub.req.ID of each Subscription object (0: not allocated)
    subID,                    \* sub.subID
    subMethod,                \* sub.unsubscriptionMethod
    stream,                   \* sub.stream: buffered channel, as a sequence
    err,                      \* sub.err: buffered channel of capacity 1, as a sequence
    pc,                       \* position of each goroutine
    msg,                      \* the frame the reader is handling
    rsub,                     \* handleSubscriptionMessage's local sub
    creq,                     \* closeSubscription's reqID argument, per process
    cerr,                     \* closeSubscription's err argument, per process
    csub,                     \* closeSubscription's local sub, per process
    wreq,                     \* the request a process is writing with conn.WriteMessage
    connUp,                   \* c.conn is connected: reads and writes succeed
    wire,                     \* the requests written to the connection
    answered,                 \* request ids the server has answered
    errored,                  \* request ids the server has answered with an error
    srvSubs,                  \* subscription ids the server has handed out
    handle,                   \* the *Subscription subscribe returned to caller t
    pushed,                   \* history: results the reader sent on sub.stream
    received,                 \* history: the results Recv returned, per Subscription
    recvErrs,                 \* history: the errors Recv returned, per Subscription
    afterErr,                 \* history: Recv returned a result after it had returned an error
    drained,                  \* history: the Subscriptions registered when closeAllSubscription ran
    errLog                    \* history: errors sent on sub.err

vars == <<subscriptionByRequestID, subscriptionByWSSubID, lock, subReq, subID,
          subMethod, stream, err, pc, msg, rsub, creq, cerr, csub, wreq, wire,
          connUp, answered, errored, srvSubs, handle, pushed, received,
          recvErrs, afterErr, drained, errLog>>

regVars == <<subscriptionByRequestID, subscriptionByWSSubID>>
srvVars == <<answered, errored, srvSubs>>
connVars == <<wire, connUp>>
recvVars == <<received, recvErrs, afterErr>>
histVars == <<pushed, recvVars, drained, errLog>>
closeVars == <<creq, cerr, csub>>
subVars == <<subReq, subID, subMethod>>
taskVars == <<handle>>

\* ------------------------------------------------------------- map helpers

MapPut(m, k, v) == [x \in DOMAIN m \cup {k} |-> IF x = k THEN v ELSE m[x]]
MapDelete(m, k) == [x \in DOMAIN m \ {k} |-> m[x]]
Range(m) == {m[x] : x \in DOMAIN m}

NoFrame == [id |-> None, result |-> None, subscription |-> None,
            body |-> "none", payload |-> 0]
NoRequest == [id |-> 0, method |-> "", subID |-> None]

\* The process has panicked: a nil dereference in the reader goroutine ends
\* the whole program.
Crashed == pc[Reader] = "panic"

\* newClientRequest's ID: uint64(rand.Int63()) for the subscribe request of
\* caller t, and for the unsubscribe request sent when Subscription s is
\* closed for the n-th time (n counts the errors already sent on s.err).
SubscribeID(t) == t
UnsubscribeID(s) == MaxSubs * (Len(errLog[s]) + 1) + s

\* ---------------------------------------------------------------- frames

\* gjson's Result.Int(): 0 for a field the frame does not have, and for null.
GjsonInt(v) == IF v \in {None, Null} THEN 0 ELSE v

IsSubscribe(r) == r.method = "programSubscribe"
Unanswered == {r \in wire : r.id \notin answered}

\* {"jsonrpc":"2.0","result":S,"id":id}: a subscribe request acknowledged.
AckFrames ==
    {[id |-> r.id, result |-> s, subscription |-> None, body |-> "result", payload |-> 0] :
        r \in {q \in Unanswered : IsSubscribe(q)}, s \in SubIDs \ srvSubs}
\* {"jsonrpc":"2.0","result":true,"id":id}: an unsubscribe request answered
\* (gjson reads true as 1).
UnsubscribeResponseFrames ==
    {[id |-> r.id, result |-> 1, subscription |-> None, body |-> "result", payload |-> 0] :
        r \in {q \in Unanswered : ~IsSubscribe(q)}}
\* {"jsonrpc":"2.0","error":{...},"id":id}: a request refused.
ErrorResponseFrames ==
    {[id |-> r.id, result |-> None, subscription |-> None, body |-> "error", payload |-> 0] :
        r \in Unanswered}
\* The payloads of notifications are opaque to the client, which never
\* branches on them; it is enough to tell the results delivered to one
\* Subscription apart, so the notification that follows k delivered ones
\* carries k + 1.
NextPayload(s) ==
    IF s \in DOMAIN subscriptionByWSSubID
    THEN Len(pushed[subscriptionByWSSubID[s]]) + 1
    ELSE 1
\* {"jsonrpc":"2.0","params":{"subscription":S,"result":...}}, with a payload
\* of the expected shape ("ok") or of another shape ("bad").
NotificationFrames ==
    {[id |-> None, result |-> None, subscription |-> s, body |-> b, payload |-> NextPayload(s)] :
        s \in {x \in SubIDs : NextPayload(x) <= MaxPushed}, b \in {"ok", "bad"}}
\* {"jsonrpc":"2.0","error":{...},"id":null}: an error tied to no request.
\* gjson finds the "id" member (Exists) and reads null as 0.
ErrorFrames ==
    {[id |-> Null, result |-> None, subscription |-> None, body |-> "error", payload |-> 0]}

Frames == AckFrames \cup UnsubscribeResponseFrames \cup ErrorResponseFrames
            \cup NotificationFrames \cup ErrorFrames

\* A decoder that accepts every payload.
decodeAnything(m) == ""

\* decodeClientResponse: the error it returns, "" for nil. A frame with an
\* "error" member gives that error, a frame without "params" ErrNullResult,
\* a payload of another shape json.Unmarshal's error.
decodeClientResponse(m) ==
    CASE m.body = "error" -> "server error"
      [] m.body = "result" -> "null result"
      [] m.body = "bad" -> "unmarshal error"
      [] OTHER -> ""

\* ------------------------------------------------------------------ Init

Init ==
    /\ subscriptionByRequestID = EmptyMap
    /\ subscriptionByWSSubID = EmptyMap
    /\ lock = None
    /\ subReq = [s \in Subs |-> 0]
    /\ subID = [s \in Subs |-> 0]
    /\ subMethod = [s \in Subs |-> ""]
    /\ stream = [s \in Subs |-> <<>>]
    /\ err = [s \in Subs |-> <<>>]
    /\ pc = [p \in Procs |-> IF p = Reader THEN "read" ELSE "start"]
    /\ msg = NoFrame
    /\ rsub = NoSub
    /\ creq = [p \in Procs |-> 0]
    /\ cerr = [p \in Procs |-> ""]
    /\ csub = [p \in Procs |-> NoSub]
    /\ wreq = [p \in Procs |-> NoRequest]
    /\ wire = {}
    /\ connUp = TRUE
    /\ answered = {}
    /\ errored = {}
    /\ srvSubs = {}
    /\ handle = [t \in Tasks |-> NoSub]
    /\ pushed = [s \in Subs |-> <<>>]
    /\ received = [s \in Subs |-> <<>>]
    /\ recvErrs = [s \in Subs |-> <<>>]
    /\ afterErr = [s \in Subs |-> FALSE]
    /\ drained = {}
    /\ errLog = [s \in Subs |-> <<>>]

\* A function returns: its frame (arguments and locals) is gone.
\* The reader is back at the top of receiveMessages' loop.
ReaderLoops ==
    /\ msg' = NoFrame
    /\ rsub' = NoSub
    /\ creq' = [creq EXCEPT ![Reader] = 0]
    /\ cerr' = [cerr EXCEPT ![Reader] = ""]
    /\ csub' = [csub EXCEPT ![Reader] = NoSub]

\* closeSubscription returns in process p: to the reader loop, or to the
\* caller of Unsubscribe.
Returns(p) ==
    /\ pc' = [pc EXCEPT ![p] = IF p = Reader THEN "read" ELSE "idle"]
    /\ creq' = [creq EXCEPT ![p] = 0]
    /\ cerr' = [cerr EXCEPT ![p] = ""]
    /\ csub' = [csub EXCEPT ![p] = NoSub]
    /\ wreq' = [wreq EXCEPT ![p] = NoRequest]
    /\ IF p = Reader THEN msg' = NoFrame /\ rsub' = NoSub ELSE UNCHANGED <<msg, rsub>>

\* ------------------------------------------------------------ the connection

\* The connection ends: the peer or the network drops it, or Close() is
\* called. From then on c.conn.ReadMessage and c.conn.WriteMessage fail.
ConnectionLost ==
    /\ ~Crashed
    /\ connUp
    /\ connUp' = FALSE
    /\ UNCHANGED <<regVars, lock, subVars, stream, err, pc, msg, rsub, closeVars, wreq,
                   wire, srvVars, taskVars, histVars>>

\* ------------------------------------------------------- the reader goroutine

\* A lookup that returns some pending Subscription, whatever the key.
callBackAny(requestID) == CHOOSE s \in Range(subscriptionByRequestID) : TRUE

\* callBack := c.subscriptionByRequestID[requestID], for a key the map holds.
callBack(requestID) == subscriptionByRequestID[requestID]

\* handleNewSubscriptionMessage, whole: it runs under c.lock and touches only
\* the registry and the Subscription it finds. callBack is nil for a request
\* id the pending index does not hold, and callBack.subID = subID panics.
handleNewSubscriptionMessage(requestID, sID) ==
    /\ UNCHANGED <<rsub, creq, cerr>>
    /\ IF requestID \notin DOMAIN subscriptionByRequestID
       THEN /\ pc' = [pc EXCEPT ![Reader] = "panic"]
            /\ UNCHANGED <<regVars, subID, msg>>
       ELSE /\ subID' = [subID EXCEPT ![callBack(requestID)] = sID]
            /\ subscriptionByWSSubID' =
                   MapPut(subscriptionByWSSubID, sID, callBack(requestID))
            /\ pc' = [pc EXCEPT ![Reader] = "read"]
            /\ UNCHANGED <<subscriptionByRequestID, msg>>

\* handleSubscriptionMessage up to the capacity test: the lookup under
\* c.lock.RLock() and the decoding of the frame, which is local.
handleSubscriptionMessage(key, message) ==
    /\ UNCHANGED <<regVars, subID>>
    /\ LET found == key \in DOMAIN subscriptionByWSSubID
           sub == subscriptionByWSSubID[key]
           derr == decodeClientResponse(message)
       IN IF ~found
          THEN /\ pc' = [pc EXCEPT ![Reader] = "read"]
               /\ UNCHANGED <<msg, rsub, creq, cerr>>
          ELSE IF derr # ""
          THEN /\ pc' = [pc EXCEPT ![Reader] = "closeSubscription"]
               /\ creq' = [creq EXCEPT ![Reader] = subReq[sub]]
               /\ cerr' = [cerr EXCEPT ![Reader] = "decode"]
               /\ UNCHANGED <<msg, rsub>>
          ELSE /\ pc' = [pc EXCEPT ![Reader] = "checkCap"]
               /\ rsub' = sub
               /\ msg' = message
               /\ UNCHANGED <<creq, cerr>>

\* handleMessage: a frame with an "id" member is taken for the answer to a
\* subscribe request, any other frame for a notification.
handleMessage(message) ==
    IF message.id # None
    THEN handleNewSubscriptionMessage(GjsonInt(message.id), GjsonInt(message.result))
    ELSE handleSubscriptionMessage(GjsonInt(message.subscription), message)

\* One turn of receiveMessages' loop up to the first step that depends on
\* another goroutine: c.conn.ReadMessage() returns a frame, handleMessage
\* parses it (local), and the handler takes c.lock (Lock or RLock, so no
\* other goroutine holds it for writing) and reads or updates the registry.
\* A frame that has been read and waits for the lock is not told apart from
\* one that has not been read yet.
receiveMessages ==
    /\ ~Crashed
    /\ pc[Reader] = "read"
    /\ connUp
    /\ lock = None
    /\ \E f \in Frames :
        /\ handleMessage(f)
        /\ answered' = IF f.id \notin {None, Null} THEN answered \cup {f.id} ELSE answered
        /\ errored' = IF f \in ErrorResponseFrames THEN errored \cup {f.id} ELSE errored
        /\ srvSubs' = IF f \in AckFrames THEN srvSubs \cup {f.result} ELSE srvSubs
    /\ UNCHANGED <<lock, subReq, subMethod, stream, err, csub, wreq, connVars, taskVars,
                   histVars>>

\* receiveMessages, c.conn.ReadMessage() returning an error.
ReadError ==
    /\ ~Crashed
    /\ pc[Reader] = "read"
    /\ ~connUp
    /\ pc' = [pc EXCEPT ![Reader] = "closeAllSubscription"]
    /\ UNCHANGED <<regVars, lock, subVars, stream, err, msg, rsub, closeVars, wreq, connVars,
                   srvVars, taskVars, histVars>>

\* The capacity test with > for >=.
StreamFullOffByOne(s) == Len(stream[s]) > StreamCap

\* len(sub.stream) >= cap(sub.stream)
StreamFull(s) == Len(stream[s]) >= StreamCap

\* handleSubscriptionMessage, the capacity test.
CheckCapacity ==
    /\ ~Crashed
    /\ pc[Reader] = "checkCap"
    /\ IF StreamFull(rsub)
       THEN /\ pc' = [pc EXCEPT ![Reader] = "closeSubscription"]
            /\ creq' = [creq EXCEPT ![Reader] = subReq[rsub]]
            /\ cerr' = [cerr EXCEPT ![Reader] = "capacity"]
       ELSE /\ pc' = [pc EXCEPT ![Reader] = "send"]
            /\ UNCHANGED <<creq, cerr>>
    /\ UNCHANGED <<regVars, lock, subVars, stream, err, msg, rsub, csub, wreq, connVars,
                   srvVars, taskVars, histVars>>

\* A buffer that hands out the newest value first.
ChanSendLIFO(q, v) == <<v>> \o q

\* ch <- v on a buffered channel
ChanSend(q, v) == Append(q, v)

\* handleSubscriptionMessage, sub.stream <- result: a send on a buffered
\* channel proceeds only while the buffer has room.
SendResult ==
    /\ ~Crashed
    /\ pc[Reader] = "send"
    /\ Len(stream[rsub]) < StreamCap
    /\ stream' = [stream EXCEPT ![rsub] = ChanSend(@, msg.payload)]
    /\ pushed' = [pushed EXCEPT ![rsub] = Append(@, msg.payload)]
    /\ pc' = [pc EXCEPT ![Reader] = "read"]
    /\ ReaderLoops
    /\ UNCHANGED <<regVars, lock, subVars, err, wreq, connVars, srvVars, taskVars,
                   recvVars, drained, errLog>>

\* closeAllSubscription, c.lock.Lock().
closeAllSubscriptionLock ==
    /\ ~Crashed
    /\ pc[Reader] = "closeAllSubscription"
    /\ lock = None
    /\ lock' = Reader
    /\ pc' = [pc EXCEPT ![Reader] = "closeAllSend"]
    /\ drained' = Range(subscriptionByRequestID) \cup Range(subscriptionByWSSubID)
    /\ UNCHANGED <<regVars, subVars, stream, err, msg, rsub, closeVars, wreq, connVars,
                   srvVars, taskVars, pushed, recvVars, errLog>>

\* closeAllSubscription ranging over every Subscription ever created.
DrainEverCreated == {s \in Subs : subReq[s] # 0}

\* closeAllSubscription ranging over the active index only.
DrainActiveOnly == Range(subscriptionByWSSubID)

\* The Subscriptions closeAllSubscription sends the error to.
DrainTargets == Range(subscriptionByRequestID)

\* closeAllSubscription, the rest: sub.err <- err for every Subscription of
\* the pending index (each send needs room in sub.err), both maps replaced
\* by empty ones, the deferred Unlock, and receiveMessages returns.
closeAllSubscription ==
    /\ ~Crashed
    /\ pc[Reader] = "closeAllSend"
    /\ \A s \in DrainTargets : Len(err[s]) < ErrCap
    /\ err' = [s \in Subs |-> IF s \in DrainTargets THEN ChanSend(err[s], "read") ELSE err[s]]
    /\ errLog' = [s \in Subs |-> IF s \in DrainTargets THEN Append(errLog[s], "read") ELSE errLog[s]]
    /\ subscriptionByRequestID' = EmptyMap
    /\ subscriptionByWSSubID' = EmptyMap
    /\ lock' = None
    /\ pc' = [pc EXCEPT ![Reader] = "done"]
    /\ UNCHANGED <<subVars, stream, msg, rsub, closeVars, wreq, connVars, srvVars, taskVars,
                   pushed, recvVars, drained>>

\* ------------------------------------------------------- closeSubscription

\* sub, found := c.subscriptionByRequestID[reqID]
Found(reqID) == reqID \in DOMAIN subscriptionByRequestID

\* closeSubscription(reqID, e) in process p, c.lock.Lock() and the lookup.
\* Not found: the deferred Unlock and return.
closeSubscription(p, reqID, e) ==
    /\ lock = None
    /\ IF Found(reqID)
       THEN /\ lock' = p
            /\ creq' = [creq EXCEPT ![p] = reqID]
            /\ cerr' = [cerr EXCEPT ![p] = e]
            /\ csub' = [csub EXCEPT ![p] = subscriptionByRequestID[reqID]]
            /\ pc' = [pc EXCEPT ![p] = "sendErr"]
            /\ UNCHANGED <<wreq, msg, rsub>>
       ELSE /\ Returns(p)
            /\ UNCHANGED lock

\* The reader's calls of closeSubscription, from handleSubscriptionMessage.
ReaderCloseSubscription ==
    /\ ~Crashed
    /\ pc[Reader] = "closeSubscription"
    /\ closeSubscription(Reader, creq[Reader], cerr[Reader])
    /\ UNCHANGED <<regVars, subVars, stream, err, connVars, srvVars, taskVars, histVars>>

\* closeSubscription, sub.err <- err, and rpcUnsubscribe up to the call of
\* c.conn.WriteMessage.
closeSubscriptionSendErr(p) ==
    /\ ~Crashed
    /\ pc[p] = "sendErr"
    /\ Len(err[csub[p]]) < ErrCap
    /\ err' = [err EXCEPT ![csub[p]] = ChanSend(@, cerr[p])]
    /\ errLog' = [errLog EXCEPT ![csub[p]] = Append(@, cerr[p])]
    /\ wreq' = [wreq EXCEPT ![p] = [id |-> UnsubscribeID(csub[p]),
                                    method |-> subMethod[csub[p]],
                                    subID |-> subID[csub[p]]]]
    /\ pc' = [pc EXCEPT ![p] = "writing"]
    /\ UNCHANGED <<regVars, lock, subVars, stream, msg, rsub, closeVars, connVars, srvVars,
                   taskVars, pushed, recvVars, drained>>

\* closeSubscription without one of its deletes.
KeepByRequestID(m, s) == m
KeepByWSSubID(m, s) == m

\* delete(c.subscriptionByRequestID, sub.req.ID)
DeleteByRequestID(m, s) == MapDelete(m, subReq[s])
\* delete(c.subscriptionByWSSubID, sub.subID)
DeleteByWSSubID(m, s) == MapDelete(m, subID[s])

\* closeSubscription, the rest: c.conn.WriteMessage returns (a failure is only
\* logged), the two deletes, the deferred Unlock, return.
closeSubscriptionDone(p) ==
    /\ ~Crashed
    /\ pc[p] = "writing"
    /\ wire' = IF connUp THEN wire \cup {wreq[p]} ELSE wire
    /\ UNCHANGED connUp
    /\ subscriptionByRequestID' = DeleteByRequestID(subscriptionByRequestID, csub[p])
    /\ subscriptionByWSSubID' = DeleteByWSSubID(subscriptionByWSSubID, csub[p])
    /\ lock' = None
    /\ Returns(p)
    /\ UNCHANGED <<subVars, stream, err, srvVars, taskVars, histVars>>

\* ------------------------------------------------------ the caller goroutines

\* subscribe, req.encode() failing: nothing is registered.
subscribeEncodeError(t) ==
    /\ ~Crashed
    /\ pc[t] = "start"
    /\ pc' = [pc EXCEPT ![t] = "failed"]
    /\ UNCHANGED <<regVars, lock, subVars, stream, err, msg, rsub, closeVars, wreq, connVars,
                   srvVars, taskVars, histVars>>

\* subscribe up to the call of c.conn.WriteMessage: newClientRequest,
\* newSubscription (which leaves subID and unsubscriptionMethod at their zero
\* values) and the registration under c.lock.
subscribe(t) ==
    /\ ~Crashed
    /\ pc[t] = "start"
    /\ lock = None
    /\ subReq' = [subReq EXCEPT ![t] = SubscribeID(t)]
    /\ subscriptionByRequestID' = MapPut(subscriptionByRequestID, SubscribeID(t), t)
    /\ wreq' = [wreq EXCEPT ![t] = [id |-> SubscribeID(t), method |-> "programSubscribe",
                                    subID |-> None]]
    /\ pc' = [pc EXCEPT ![t] = "subWriting"]
    /\ UNCHANGED <<subscriptionByWSSubID, lock, subID, subMethod, stream, err, msg, rsub,
                   closeVars, connVars, srvVars, taskVars, histVars>>

\* subscribe, c.conn.WriteMessage returned nil: return sub, nil.
subscribeDone(t) ==
    /\ ~Crashed
    /\ pc[t] = "subWriting"
    /\ connUp
    /\ wire' = wire \cup {wreq[t]}
    /\ UNCHANGED connUp
    /\ wreq' = [wreq EXCEPT ![t] = NoRequest]
    /\ handle' = [handle EXCEPT ![t] = t]
    /\ pc' = [pc EXCEPT ![t] = "idle"]
    /\ UNCHANGED <<regVars, lock, subVars, stream, err, msg, rsub, closeVars, srvVars,
                   histVars>>

\* subscribe, c.conn.WriteMessage returned an error: return nil, err.
subscribeWriteError(t) ==
    /\ ~Crashed
    /\ pc[t] = "subWriting"
    /\ ~connUp
    /\ wreq' = [wreq EXCEPT ![t] = NoRequest]
    /\ pc' = [pc EXCEPT ![t] = "failed"]
    /\ UNCHANGED <<regVars, lock, subVars, stream, err, msg, rsub, closeVars, connVars,
                   srvVars, taskVars, histVars>>

\* <-ch on a buffered channel: the value received and what stays buffered.
ChanHead(q) == Head(q)
ChanRest(q) == Tail(q)

\* Recv, case d := <-s.stream.
RecvResult(t) ==
    /\ ~Crashed
    /\ pc[t] = "idle"
    /\ handle[t] # NoSub
    /\ stream[handle[t]] # <<>>
    /\ received' = [received EXCEPT ![handle[t]] = Append(@, ChanHead(stream[handle[t]]))]
    /\ afterErr' = [afterErr EXCEPT ![handle[t]] = @ \/ recvErrs[handle[t]] # <<>>]
    /\ UNCHANGED recvErrs
    /\ stream' = [stream EXCEPT ![handle[t]] = ChanRest(@)]
    /\ UNCHANGED <<regVars, lock, subVars, err, pc, msg, rsub, closeVars, wreq, connVars,
                   srvVars, taskVars, pushed, drained, errLog>>

\* Recv, case err := <-s.err.
RecvError(t) ==
    /\ ~Crashed
    /\ pc[t] = "idle"
    /\ handle[t] # NoSub
    /\ err[handle[t]] # <<>>
    /\ recvErrs' = [recvErrs EXCEPT ![handle[t]] = Append(@, ChanHead(err[handle[t]]))]
    /\ UNCHANGED <<received, afterErr>>
    /\ err' = [err EXCEPT ![handle[t]] = ChanRest(@)]
    /\ UNCHANGED <<regVars, lock, subVars, stream, pc, msg, rsub, closeVars, wreq, connVars,
                   srvVars, taskVars, pushed, drained, errLog>>

\* Unsubscribe: s.closeFunc(nil), which is c.closeSubscription(req.ID, nil),
\* up to its lookup.
Unsubscribe(t) ==
    /\ ~Crashed
    /\ pc[t] = "idle"
    /\ handle[t] # NoSub
    /\ closeSubscription(t, subReq[handle[t]], "nil")
    /\ UNCHANGED <<regVars, subVars, stream, err, connVars, srvVars, taskVars, histVars>>

\* ---------------------------------------------------------- specification

Next ==
    \/ ConnectionLost
    \/ receiveMessages
    \/ ReadError
    \/ CheckCapacity
    \/ SendResult
    \/ closeAllSubscriptionLock
    \/ closeAllSubscription
    \/ ReaderCloseSubscription
    \/ \E p \in Procs : closeSubscriptionSendErr(p)
    \/ \E p \in Procs : closeSubscriptionDone(p)
    \/ \E t \in Tasks : subscribeEncodeError(t)
    \/ \E t \in Tasks : subscribe(t)
    \/ \E t \in Tasks : subscribeDone(t)
    \/ \E t \in Tasks : subscribeWriteError(t)
    \/ \E t \in Tasks : RecvResult(t)
    \/ \E t \in Tasks : RecvError(t)
    \/ \E t \in Tasks : Unsubscribe(t)

Spec == Init /\ [][Next]_vars

\* ------------------------------------------------------------------ claims

IsPrefix(a, b) == Len(a) <= Len(b) /\ a = SubSeq(b, 1, Len(a))
KeysOf(m, s) == {k \in DOMAIN m : m[k] = s}
Registered(s) == s \in Range(subscriptionByRequestID) \cup Range(subscriptionByWSSubID)
\* A closeSubscription that has sent s its error has not returned yet.
Closing(s) == \E p \in Procs : pc[p] = "writing" /\ csub[p] = s
\* The reader is inside closeSubscription(sub.req.ID, e), called from
\* handleSubscriptionMessage, and CloseTarget is that sub.
ReaderClosing(e) ==
    pc[Reader] \in {"closeSubscription", "sendErr", "writing"} /\ cerr[Reader] = e
CloseTarget == CHOOSE s \in Subs : subReq[s] = creq[Reader]
ReaderStep == pc'[Reader] # pc[Reader]
\* A step leaves Subscription s alone: its channels and its index entries.
Untouched(s) ==
    /\ stream'[s] = stream[s]
    /\ err'[s] = err[s]
    /\ KeysOf(subscriptionByRequestID', s) = KeysOf(subscriptionByRequestID, s)
    /\ KeysOf(subscriptionByWSSubID', s) = KeysOf(subscriptionByWSSubID, s)

\* C1: the reader goroutine never waits for a subscriber. Wherever the reader
\* is about to send on a channel of a Subscription (sub.stream in
\* handleSubscriptionMessage, sub.err in closeSubscription and
\* closeAllSubscription) the channel has room, so the send completes without
\* any Recv; and no goroutine holding c.lock, which the reader needs, is
\* stuck on a full sub.err either.
C1_ReaderNeverWaits ==
    /\ pc[Reader] = "send" => Len(stream[rsub]) < StreamCap
    /\ \A p \in Procs : pc[p] = "sendErr" => Len(err[csub[p]]) < ErrCap
    /\ pc[Reader] = "closeAllSend" => \A s \in DrainTargets : Len(err[s]) < ErrCap

\* The reader is about to send a result to a Subscription that already holds
\* one, and no Recv has ever been called.
C1_Witness ==
    /\ pc[Reader] = "send"
    /\ stream[rsub] # <<>>
    /\ \A s \in Subs : received[s] = <<>> /\ recvErrs[s] = <<>>

\* C2: backpressure. A notification that finds its Subscription's pipe full
\* is not enqueued (the reader's closing steps leave every pipe as it is);
\* closeSubscription, finding the Subscription still registered, puts the
\* capacity error, and nothing else, in its error slot and removes it from
\* the registry (if it is not found, its owner has closed it meanwhile); the
\* steps leave every other Subscription's channels and index entries alone
\* and the reader goes back to reading, so later notifications for the
\* others are delivered.
C2_Backpressure ==
    /\ [](/\ (ReaderClosing("capacity") /\ pc[Reader] = "writing")
               => (errLog[CloseTarget] = <<"capacity">> /\ csub[Reader] = rsub)
          /\ (ReaderClosing("capacity") /\ pc[Reader] = "closeSubscription"
                 /\ ~Found(creq[Reader]))
               => errLog[CloseTarget] # <<>>
          /\ \A s \in Subs :
               "capacity" \in Range(errLog[s]) => (Closing(s) \/ ~Registered(s)))
    /\ [][(ReaderClosing("capacity") /\ ReaderStep)
            => /\ stream' = stream
               /\ \A s \in Subs \ {CloseTarget} : Untouched(s)
               /\ pc'[Reader] \in {"sendErr", "writing", "read"}]_vars

\* The reader delivers to one Subscription after another has been closed for
\* capacity.
C2_Witness ==
    /\ pc[Reader] = "send"
    /\ \E s \in Subs \ {rsub} : errLog[s] = <<"capacity">> /\ ~Registered(s)

\* C3: connection failure fan-out. Once receiveMessages has returned after a
\* read error, every Subscription that was registered when
\* closeAllSubscription ran has been sent the read error and no other error
\* (it is in the error slot, or a Recv has returned it), and none of them
\* is left in either index.
C3_FailureFanOut ==
    pc[Reader] = "done" =>
        \A s \in drained :
            /\ errLog[s] = <<"read">>
            /\ err[s] = <<"read">> \/ recvErrs[s] = <<"read">>
            /\ ~Registered(s)

\* The read failed with two Subscriptions live; one has got the error from
\* Recv, the other has it in its slot.
C3_Witness ==
    /\ pc[Reader] = "done"
    /\ drained = Subs
    /\ \E s \in Subs : recvErrs[s] = <<"read">>
    /\ \E s \in Subs : err[s] = <<"read">>

\* C4: notification routing. A result is delivered only to a Subscription
\* whose subscribe request the server acknowledged, with the subscription id
\* that the notification bears.
C4_Routing ==
    pc[Reader] \in {"checkCap", "send"} =>
        /\ subID[rsub] = msg.subscription
        /\ subReq[rsub] \in answered \ errored

\* C5: FIFO per subscription. The results Recv has returned for a
\* Subscription are a prefix of the results the reader sent on its stream.
C5_Fifo == \A s \in Subs : IsPrefix(received[s], pushed[s])

\* Two results returned, a third one sent and not yet received.
C5_Witness == \E s \in Subs : Len(received[s]) = 2 /\ Len(pushed[s]) = 3

\* C6: Recv is sticky on error. Once a Recv has returned an error, no Recv
\* returns a result, every error returned is that one, and the next Recv can
\* return it again (it is still in the error slot).
C6_StickyError ==
    \A s \in Subs : recvErrs[s] # <<>> =>
        /\ ~afterErr[s]
        /\ \A i \in 1..Len(recvErrs[s]) : recvErrs[s][i] = recvErrs[s][1]
        /\ err[s] = <<recvErrs[s][1]>>

\* C7: idempotent unsubscribe. An Unsubscribe on a Subscription that has
\* already been closed (by an earlier Unsubscribe, by the reader, or by a
\* connection failure) returns at once and changes nothing: no error is sent,
\* no request is written or prepared, the registry and the lock are as
\* before.
C7_IdempotentUnsubscribe ==
    [][\A t \in Tasks :
        handle[t] # NoSub /\ errLog[handle[t]] # <<>> /\ Unsubscribe(t)
            => /\ pc'[t] = "idle"
               /\ UNCHANGED <<err, errLog, wire, wreq, regVars, lock, stream>>]_vars

\* A caller whose own Unsubscribe has closed its Subscription is free to
\* call Unsubscribe again.
C7_Witness ==
    \E t \in Tasks :
        /\ pc[t] = "idle"
        /\ handle[t] # NoSub
        /\ errLog[handle[t]] = <<"nil">>
        /\ lock = None

\* C8: a failed subscribe is rolled back. When subscribe has returned an
\* error the Subscription it built is not in the registry.
C8_FailedSubscribeRolledBack ==
    \A t \in Tasks : pc[t] = "failed" => ~Registered(t)

\* C9: a payload decode failure is terminal for its Subscription only.
\* closeSubscription, finding the Subscription still registered, puts the
\* decode error, and nothing else, in its error slot and removes it from the
\* active index (if it is not found, its owner has closed it meanwhile);
\* the undecodable payload never gets on its way to a pipe and the closing
\* steps push nothing; they leave every other Subscription alone; and the
\* reader goes back to reading.
C9_DecodeFailure ==
    /\ [](/\ pc[Reader] \in {"checkCap", "send"} => msg.body = "ok"
          /\ (ReaderClosing("decode") /\ pc[Reader] = "writing")
               => (errLog[CloseTarget] = <<"decode">> /\ csub[Reader] = CloseTarget)
          /\ (ReaderClosing("decode") /\ pc[Reader] = "closeSubscription"
                 /\ ~Found(creq[Reader]))
               => errLog[CloseTarget] # <<>>
          /\ \A s \in Subs :
               "decode" \in Range(errLog[s])
                   => (Closing(s) \/ s \notin Range(subscriptionByWSSubID)))
    /\ [][(ReaderClosing("decode") /\ ReaderStep)
            => /\ stream' = stream
               /\ pushed' = pushed
               /\ \A s \in Subs \ {CloseTarget} : Untouched(s)
               /\ pc'[Reader] \in {"sendErr", "writing", "read"}]_vars

\* A Subscription has been closed by a decode error while another one is
\* active, and the reader is handling a later notification for that one.
C9_Witness ==
    /\ pc[Reader] \in {"checkCap", "send"}
    /\ \E s \in Subs \ {rsub} :
        errLog[s] = <<"decode">> /\ s \notin Range(subscriptionByWSSubID)

\* C10: a server error for a pending subscribe request becomes the terminal
\* error of its Subscription, which is not promoted into the active index.
C10_ServerErrorSurfaced ==
    \A s \in Subs : subReq[s] \in errored =>
        /\ errLog[s] # <<>>
        /\ s \notin Range(subscriptionByWSSubID)

\* C11: acknowledgement routing. When the reader handles the acknowledgement
\* of the subscribe request of caller t while that request is in the pending
\* index, it assigns the subscription id the frame carries to t's
\* Subscription and to no other, enters t's Subscription in the active index
\* under that id and nowhere else, and gives no other Subscription a new
\* entry in the active index.
C11_AckRouting ==
    [][\A t \in Tasks :
        (/\ SubscribeID(t) \in (answered' \ answered) \ errored'
         /\ SubscribeID(t) \in DOMAIN subscriptionByRequestID)
        => \E S \in SubIDs \ srvSubs :
            /\ srvSubs' = srvSubs \cup {S}
            /\ subID' = [subID EXCEPT ![t] = S]
            /\ subscriptionByWSSubID' = MapPut(subscriptionByWSSubID, S, t)
            /\ KeysOf(subscriptionByWSSubID', t) = {S}
            /\ \A u \in Subs \ {t} :
                KeysOf(subscriptionByWSSubID', u) \subseteq KeysOf(subscriptionByWSSubID, u)
            /\ pc'[Reader] = "read"]_vars

\* Both callers' requests have been acknowledged, the one made by caller 2
\* with the first id and the one made by caller 1 with the second, and each
\* Subscription is in the active index under its own id.
C11_Witness ==
    /\ answered = {SubscribeID(1), SubscribeID(2)}
    /\ errored = {}
    /\ subscriptionByWSSubID = MapPut(MapPut(EmptyMap, 0, 2), 1, 1)
    /\ subID[2] = 0 /\ subID[1] = 1

\* A Subscription that has been registered and not been closed.
Live(s) == subReq[s] # 0 /\ errLog[s] = <<>>

\* C12: registry index exclusivity. No Subscription is in the pending index
\* and in the active index at once, and a live Subscription is in one of
\* them.
C12_IndexExclusivity ==
    \A s \in Subs :
        /\ ~(s \in Range(subscriptionByRequestID) /\ s \in Range(subscriptionByWSSubID))
        /\ Live(s) => Registered(s)

\* C13: an acknowledgement for a request id that the pending index does not
\* hold is dropped: the reader leaves both indices as they are and goes on
\* to the next frame.
C13_UnknownAckDropped ==
    [][(/\ srvSubs' # srvSubs
        /\ (answered' \ answered) \cap DOMAIN subscriptionByRequestID = {})
        => (UNCHANGED regVars /\ pc'[Reader] = "read")]_vars

\* C14: once an error has been sent to a Subscription's error slot, no step
\* pushes a result into its delivery pipe.
C14_NoResultAfterError ==
    [][\A s \in Subs : errLog[s] # <<>> => pushed'[s] = pushed[s]]_vars

\* C15: at most one error is ever sent on a Subscription's err channel, and
\* every send on it, made under c.lock by closeSubscription or
\* closeAllSubscription, finds the channel empty.
C15_OneError ==
    /\ \A s \in Subs : Len(errLog[s]) <= 1
    /\ \A p \in Procs : pc[p] = "sendErr" => err[csub[p]] = <<>> /\ errLog[csub[p]] = <<>>
    /\ pc[Reader] = "closeAllSend" =>
          \A s \in DrainTargets : err[s] = <<>> /\ errLog[s] = <<>>

\* One Subscription was closed by Unsubscribe and another, later, by the
\* connection failure, and the owner of the first is free to call
\* Unsubscribe again.
C15_Witness ==
    /\ pc[Reader] = "done"
    /\ \E s \in Subs : errLog[s] = <<"nil">>
    /\ \E s \in Subs : errLog[s] = <<"read">>
    /\ \A t \in Tasks : pc[t] = "idle"

\* ------------------------------------------- a peer that repeats itself

\* {"jsonrpc":"2.0","result":S,"id":id} for a subscribe request the peer has
\* acknowledged already, with any subscription id.
RepeatedAckFrames ==
    {[id |-> r.id, result |-> s, subscription |-> None, body |-> "result", payload |-> 0] :
        r \in {q \in wire : IsSubscribe(q) /\ q.id \in answered \ errored}, s \in SubIDs}

\* One turn of receiveMessages' loop, as in receiveMessages, for a frame
\* that repeats an acknowledgement.
receiveRepeatedAck ==
    /\ ~Crashed
    /\ pc[Reader] = "read"
    /\ connUp
    /\ lock = None
    /\ \E f \in RepeatedAckFrames : handleMessage(f)
    /\ UNCHANGED <<lock, subReq, subMethod, stream, err, csub, wreq, connVars, srvVars,
                   taskVars, histVars>>

\* The client's steps while the connection stays up and before any Recv,
\* with a peer that may repeat an acknowledgement.
NextRepeatedAck ==
    \/ receiveMessages
    \/ receiveRepeatedAck
    \/ CheckCapacity
    \/ SendResult
    \/ ReaderCloseSubscription
    \/ \E p \in Procs : closeSubscriptionSendErr(p)
    \/ \E p \in Procs : closeSubscriptionDone(p)
    \/ \E t \in Tasks : subscribe(t)
    \/ \E t \in Tasks : subscribeDone(t)
    \/ \E t \in Tasks : Unsubscribe(t)

SpecRepeatedAck == Init /\ [][NextRepeatedAck]_vars

\* C16: the subscription id is assigned at most once. Once the
\* acknowledgement of a Subscription's request has been handled, no step
\* changes its subID.
C16_SubIDImmutable ==
    [][\A s \in Subs :
        (subReq[s] # 0 /\ subReq[s] \in answered \ errored) => subID'[s] = subID[s]]_vars

\* C17: the unsubscribe request that closeSubscription writes carries the
\* subscription id of the Subscription it closes and the unsubscribe method
\* given to subscribe, which for ProgramSubscribe is "programUnsubscribe".
C17_UnsubscribeRequest ==
    \A p \in Procs : pc[p] = "writing" =>
        /\ wreq[p].subID = subID[csub[p]]
        /\ wreq[p].method = "programUnsubscribe"

\* A goroutine is about to call, or is inside, c.conn.WriteMessage.
Writing(p) == pc[p] \in {"subWriting", "writing"}

\* C18: outbound writes are serialized: at most one goroutine at a time is
\* at c.conn.WriteMessage.
C18_WritesSerialized == Cardinality({p \in Procs : Writing(p)}) <= 1

\* C19: c.lock is held for index mutation only: no goroutine holds it while
\* it sends on a Subscription's err channel or writes to the connection.
C19_LockScope ==
    \A p \in Procs : lock = p => pc[p] \notin {"sendErr", "writing", "closeAllSend"}

\* C20: sibling isolation. The steps of closeSubscription, in whichever
\* goroutine and for whichever reason it runs, leave every Subscription but
\* the one it closes alone: channels and index entries.
C20_SiblingIsolation ==
    [][\A p \in Procs :
        (pc[p] \in {"sendErr", "writing"} /\ pc'[p] # pc[p])
            => \A s \in Subs \ {csub[p]} : Untouched(s)]_vars

====
